---- MODULE Spec2Model ----
(***************************************************************************)
(* Portfolio dashboard: reconstruction of the portfolio state from the     *)
(* trading log (export_dashboard.recalculate_portfolio_from_csv), the      *)
(* per-bucket valuation series of the three dashboard generators          *)
(* (export_dashboard, generate_static_dashboard, generate_dashboard) and   *)
(* the performance metrics (calculate_performance_metrics).                *)
(*                                                                         *)
(* The log is the CSV file, a sequence of rows in file order.  A row is a  *)
(* record [timestamp, ticker, action, quantity, close, position_after,     *)
(* cash_after]; an empty CSV field (pandas NaN) is Null.  Timestamps are   *)
(* minutes since the start of the first day.  Numbers in the CSV are whole *)
(* numbers, so int() and float() leave them as they are.                   *)
(***************************************************************************)
EXTENDS Integers, Sequences, FiniteSets, TLC

VARIABLES
    log,        \* the rows of trading_log.csv, in file order
    df_sorted,  \* what df.sort_values('timestamp') returns for this file
    pm,         \* the PortfolioManager: [portfolio, cash, trades]
    saved,      \* the state last written by pm.save_data()
    outcome,    \* how the last reconstruction ended
    calls,      \* completed calls of recalculate_portfolio_from_csv
    series,     \* the valuation series computed by the last generator step
    metrics     \* what the last calculate_performance_metrics call returned

vars == <<log, df_sorted, pm, saved, outcome, calls, series, metrics>>

\* NaN, the value pandas gives an empty CSV field; no number of a log equals it
Null == -1000

\* ------------------------------------------------------------ bounds
MaxRows == 2
MaxCalls == 2
MaxPoints == 4
MaxTradeRows == 3

\* ------------------------------------------------------------ helpers
Range(s) == {s[i] : i \in DOMAIN s}

Last(s) == s[Len(s)]

RECURSIVE SumSeq(_)
SumSeq(s) == IF s = <<>> THEN 0 ELSE s[1] + SumSeq(Tail(s))

MaxOf(S) == CHOOSE x \in S : \A y \in S : y <= x

\* Series.dropna(): the non-null values of a column, in row order
Dropna(rows, col) ==
    LET nn == SelectSeq(rows, LAMBDA r : r[col] # Null)
    IN  [i \in DOMAIN nn |-> nn[i][col]]

\* Series.isna().all()
IsnaAll(rows, col) == \A i \in DOMAIN rows : rows[i][col] = Null

\* ------------------------------------------------------------ the log
\* pm.stocks, the tracked tickers in iteration order
Stocks == <<"AAPL", "MSFT">>

StockSet == Range(Stocks)

Timestamps == {0, 60, 1440}

Row(ts, tk, act, q, c, p, k) ==
    [timestamp |-> ts, ticker |-> tk, action |-> act, quantity |-> q,
     close |-> c, position_after |-> p, cash_after |-> k]

\* Rows of the reconstruction runs: price observations and SELLs with every
\* combination of empty and filled position_after / cash_after, and BUYs.
RecalcShapes ==
    {<<"HOLD", 0, 5, Null, Null>>, <<"HOLD", 0, 5, Null, 20>>,
     <<"SELL", 1, 5, 3, Null>>, <<"HOLD", 0, 5, 1, 10>>,
     <<"SELL", 1, 5, 3, 20>>,
     <<"BUY", 2, 5, Null, Null>>, <<"BUY", 3, 7, 1, 10>>}

RecalcRows ==
    {Row(ts, tk, s[1], s[2], s[3], s[4], s[5]) :
        ts \in Timestamps, tk \in StockSet, s \in RecalcShapes}

LogsOver(rows) == UNION {[1..n -> rows] : n \in 0..MaxRows}

\* ------------------------------------------------------------ sort_values
Perms(n) == {p \in [1..n -> 1..n] : \A i, j \in 1..n : i # j => p[i] # p[j]}

IsAscending(rows) ==
    \A i, j \in DOMAIN rows : i < j => rows[i].timestamp <= rows[j].timestamp

\* df.sort_values('timestamp') with the default kind='quicksort': the rows in
\* ascending timestamp order.  quicksort is not a stable sort: numpy's
\* introsort partitions a frame of more than 16 rows and swaps rows with
\* equal timestamps, so the order among equal timestamps is any order.  The
\* short logs of the model stand for logs of any length.
SortValues(rows) ==
    {d \in {[i \in DOMAIN rows |-> rows[p[i]]] : p \in Perms(Len(rows))} :
        IsAscending(d)}

\* ------------------------------------------------------------ reconstruction
IsComplete(r) == r.position_after # Null /\ r.cash_after # Null

\* df[df['position_after'].notna() & df['cash_after'].notna()]
LastComplete(df) == SelectSeq(df, IsComplete)

LatestTimestamp(df) ==
    MaxOf({LastComplete(df)[i].timestamp : i \in DOMAIN LastComplete(df)})

\* df[df['timestamp'] == latest_timestamp]
LatestState(df) ==
    SelectSeq(df, LAMBDA r : r.timestamp = LatestTimestamp(df))

\* new_portfolio.get(stock, 0) after the loop over latest_state: a later row
\* of the same ticker overwrites an earlier one
NewPortfolioGet(latest_state, stock) ==
    LET own == SelectSeq(latest_state,
                   LAMBDA r : r.ticker = stock /\ r.position_after # Null)
    IN  IF own = <<>> THEN 0 ELSE Last(own).position_after

\* latest_state['cash_after'].dropna().iloc[-1]
LatestCash(latest_state) == Last(Dropna(latest_state, "cash_after"))

BuyActions(df) == SelectSeq(df, LAMBDA r : r.action = "BUY")

\* int(row['quantity']) raises ValueError on NaN
TradeRaises(r) == r.quantity = Null

TotalCost(r) ==
    IF r.close = Null THEN Null ELSE r.quantity * r.close

TradeOfCostIsPrice(r) ==
    [timestamp |-> r.timestamp, stock |-> r.ticker, shares |-> r.quantity,
     price |-> r.close, total_cost |-> r.close]

TradeOf(r) ==
    [timestamp |-> r.timestamp, stock |-> r.ticker, shares |-> r.quantity,
     price |-> r.close, total_cost |-> TotalCost(r)]

TradesOf(df) ==
    LET buys == BuyActions(df) IN [i \in DOMAIN buys |-> TradeOf(buys[i])]

TradesRaise(df) == \E i \in DOMAIN df : df[i].action = "BUY" /\ TradeRaises(df[i])

\* lines 73-75: the tracked positions and the cash are overwritten
WithLatestState(p, df) ==
    [p EXCEPT !.portfolio =
                  [s \in StockSet |-> NewPortfolioGet(LatestState(df), s)],
              !.cash = LatestCash(LatestState(df))]

RecalculatedAppending(p, df) ==
    IF LastComplete(df) = <<>> THEN p
    ELSE IF TradesRaise(df) THEN WithLatestState(p, df)
    ELSE [WithLatestState(p, df) EXCEPT !.trades = p.trades \o TradesOf(df)]

RecalculatedResetting(p, df) ==
    IF LastComplete(df) = <<>>
    THEN [p EXCEPT !.portfolio = [s \in StockSet |-> 0], !.trades = <<>>]
    ELSE IF TradesRaise(df) THEN WithLatestState(p, df)
    ELSE [WithLatestState(p, df) EXCEPT !.trades = TradesOf(df)]

RecalculatedCopy(p, df) == p

\* pm after recalculate_portfolio_from_csv(pm), df the sorted frame.  An
\* exception in the trade loop is caught by the except clause after the
\* positions and the cash were assigned.
Recalculated(p, df) ==
    IF LastComplete(df) = <<>> THEN p
    ELSE IF TradesRaise(df) THEN WithLatestState(p, df)
    ELSE [WithLatestState(p, df) EXCEPT !.trades = TradesOf(df)]

\* how the call ends: "skipped" when the if finds no checkpoint row, "caught"
\* when the except clause prints the error of the trade loop, "loaded" when
\* pm.save_data() and the three prints are reached
Outcome(df) ==
    IF LastComplete(df) = <<>> THEN "skipped"
    ELSE IF TradesRaise(df) THEN "caught"
    ELSE "loaded"

\* ------------------------------------------------------------ valuation series
\* Rows of the valuation runs: what matters is which of close,
\* position_after and cash_after a row carries.
AggShapes ==
    {<<150, 10, 5000>>, <<200, Null, Null>>, <<Null, 20, Null>>,
     <<Null, Null, 100>>, <<200, 20, Null>>, <<Null, Null, Null>>}

AggRows ==
    {Row(ts, tk, "HOLD", 0, s[1], s[2], s[3]) :
        ts \in Timestamps, tk \in StockSet, s \in AggShapes}

\* the bucket widths of dt.floor('h') and of dt.floor('D') / dt.date, in minutes
HourSpan == 60
DaySpan == 1440

Floor(ts, span) == ts - (ts % span)

\* Series.unique(): the distinct values in order of first appearance
RECURSIVE Unique(_)
Unique(s) ==
    IF s = <<>> THEN <<>>
    ELSE LET u == Unique(SubSeq(s, 1, Len(s) - 1))
         IN  IF Last(s) \in Range(u) THEN u ELSE Append(u, Last(s))

\* df['timestamp'].dt.floor(span).unique()
BucketTimes(df, span) ==
    Unique([i \in DOMAIN df |-> Floor(df[i].timestamp, span)])

\* df[df['timestamp'].dt.floor(span) == timestamp]
TimestampData(df, span, b) ==
    SelectSeq(df, LAMBDA r : Floor(r.timestamp, span) = b)

\* timestamp_data[timestamp_data['ticker'] == stock]
StockRows(df, span, b, stock) ==
    SelectSeq(TimestampData(df, span, b), LAMBDA r : r.ticker = stock)

\* the guard of the inner if: the ticker has a position_after in the bucket
HasPosition(df, span, b, stock) ==
    /\ StockRows(df, span, b, stock) # <<>>
    /\ ~IsnaAll(StockRows(df, span, b, stock), "position_after")

\* stock_rows['close'].dropna().iloc[-1] on an empty Series: IndexError
StockRaises(df, span, b, stock) ==
    /\ HasPosition(df, span, b, stock)
    /\ Dropna(StockRows(df, span, b, stock), "close") = <<>>

StockValueFirstClose(df, span, b, stock) ==
    IF HasPosition(df, span, b, stock)
    THEN Last(Dropna(StockRows(df, span, b, stock), "position_after"))
         * Head(Dropna(StockRows(df, span, b, stock), "close"))
    ELSE 0

\* the rows of a ticker in the bucket and in the buckets before it
RowsUpTo(df, span, b, stock) ==
    SelectSeq(df, LAMBDA r : r.ticker = stock /\ Floor(r.timestamp, span) <= b)

StockValueCarried(df, span, b, stock) ==
    IF HasPosition(df, span, b, stock)
    THEN Last(Dropna(StockRows(df, span, b, stock), "position_after"))
         * Last(Dropna(StockRows(df, span, b, stock), "close"))
    ELSE IF Dropna(RowsUpTo(df, span, b, stock), "position_after") # <<>>
            /\ Dropna(RowsUpTo(df, span, b, stock), "close") # <<>>
    THEN Last(Dropna(RowsUpTo(df, span, b, stock), "position_after"))
         * Last(Dropna(RowsUpTo(df, span, b, stock), "close"))
    ELSE 0

\* what one ticker adds to stock_value in the bucket
StockValue(df, span, b, stock) ==
    IF HasPosition(df, span, b, stock)
    THEN Last(Dropna(StockRows(df, span, b, stock), "position_after"))
         * Last(Dropna(StockRows(df, span, b, stock), "close"))
    ELSE 0

\* if not timestamp_data['cash_after'].isna().all()
HasCash(df, span, b) == ~IsnaAll(TimestampData(df, span, b), "cash_after")

\* stock_value + latest_cash
BucketTotal(df, span, b) ==
    SumSeq([i \in DOMAIN Stocks |-> StockValue(df, span, b, Stocks[i])])
    + Last(Dropna(TimestampData(df, span, b), "cash_after"))

\* the buckets that reach the append, in loop order
EmittedBuckets(df, span) ==
    SelectSeq(BucketTimes(df, span), LAMBDA b : HasCash(df, span, b))

ValuesRaise(df, span) ==
    \E b \in Range(EmittedBuckets(df, span)) :
        \E stock \in StockSet : StockRaises(df, span, b, stock)

\* portfolio_values / portfolio_data at the end of the loop
PortfolioValues(df, span) ==
    LET bs == EmittedBuckets(df, span)
    IN  [i \in DOMAIN bs |->
            [bucket_time |-> bs[i], total_value |-> BucketTotal(df, span, bs[i])]]

\* the outcome of one of the four loops over the unsorted frame: the series,
\* or the IndexError that leaves the function
LoopOutcome(by, df, span) ==
    IF ValuesRaise(df, span)
    THEN [by |-> by, raised |-> TRUE, points |-> <<>>]
    ELSE [by |-> by, raised |-> FALSE, points |-> PortfolioValues(df, span)]

\* generate_dashboard.main: df.groupby(df['timestamp'].dt.date).last().index,
\* the dates of the log in ascending order
RECURSIVE SortedSeq(_)
SortedSeq(S) ==
    IF S = {} THEN <<>>
    ELSE LET m == CHOOSE x \in S : \A y \in S : x <= y
         IN  <<m>> \o SortedSeq(S \ {m})

Dates(df) == SortedSeq({Floor(df[i].timestamp, DaySpan) : i \in DOMAIN df})

\* x.dropna().iloc[-1] if not x.dropna().empty else 0
LastOrZero(rows, col) ==
    IF Dropna(rows, col) = <<>> THEN 0 ELSE Last(Dropna(rows, col))

\* df['ticker'].unique()
TickersOf(df) == Unique([i \in DOMAIN df |-> df[i].ticker])

DayTickerValue(df, date, ticker) ==
    LET ticker_data == StockRows(df, DaySpan, date, ticker)
    IN  IF ticker_data = <<>> THEN 0
        ELSE LastOrZero(ticker_data, "position_after")
             * LastOrZero(ticker_data, "close")

DayTotal(df, date) ==
    LastOrZero(TimestampData(df, DaySpan, date), "cash_after")
    + SumSeq([i \in DOMAIN TickersOf(df) |->
                 DayTickerValue(df, date, TickersOf(df)[i])])

DailyValues(df) ==
    [i \in DOMAIN Dates(df) |->
        [bucket_time |-> Dates(df)[i], total_value |-> DayTotal(df, Dates(df)[i])]]

\* ------------------------------------------------------------ float64
\* A number the metrics compute is the exact fraction num/den in lowest
\* terms (den > 0), or one of numpy's inf, -inf and nan.  Rounding to 53
\* bits is left out: every comparison below is between exact values.
RECURSIVE Gcd(_, _)
Gcd(a, b) == IF b = 0 THEN a ELSE Gcd(b, a % b)

Abs(x) == IF x < 0 THEN -x ELSE x

Finite(n, d) ==
    [kind |-> "finite", num |-> n \div Gcd(Abs(n), d), den |-> d \div Gcd(Abs(n), d)]

Inf == [kind |-> "inf", num |-> 1, den |-> 0]

NegInf == [kind |-> "inf", num |-> -1, den |-> 0]

NaN == [kind |-> "nan", num |-> 0, den |-> 0]

\* a key the returned dict does not have
Absent == [kind |-> "absent", num |-> 0, den |-> 0]

Zero == Finite(0, 1)

\* a / b on numpy scalars and arrays: a zero divisor gives inf, -inf or nan
\* and a RuntimeWarning, never an exception
FloatDiv(a, b) ==
    IF b = 0
    THEN (IF a > 0 THEN Inf ELSE IF a < 0 THEN NegInf ELSE NaN)
    ELSE IF b > 0 THEN Finite(a, b) ELSE Finite(-a, -b)

\* x > y: False as soon as one side is nan
FloatGt(x, y) ==
    /\ x.kind # "nan"
    /\ y.kind # "nan"
    /\ IF x.kind = "inf" /\ y.kind = "inf"
       THEN x.num > y.num
       ELSE x.num * y.den > y.num * x.den

FloatLt(x, y) == FloatGt(y, x)

IsFinite(x) == x.kind = "finite"

\* ------------------------------------------------------------ metrics
\* portfolio_values, the list the loop appends to
Totals(points) == [i \in DOMAIN points |-> points[i].total_value]

\* returns = np.diff(portfolio_values) / portfolio_values[:-1]
Returns(portfolio_values) ==
    [i \in 1..(Len(portfolio_values) - 1) |->
        FloatDiv(portfolio_values[i + 1] - portfolio_values[i], portfolio_values[i])]

\* np.std(returns) * np.sqrt(252) * 100: a number when every return is one,
\* nan otherwise; its magnitude is not modelled
Volatility(returns) ==
    IF \A i \in DOMAIN returns : IsFinite(returns[i]) THEN "finite" ELSE "nan"

\* df[(df['ticker'] == trade['ticker']) & (df['timestamp'] > trade['timestamp'])]['close']
FuturePrices(df, trade) ==
    LET later == SelectSeq(df, LAMBDA r : r.ticker = trade.ticker
                                          /\ r.timestamp > trade.timestamp)
    IN  [i \in DOMAIN later |-> later[i].close]

\* not future_prices.empty and future_prices.iloc[-1] > trade['close']
IsWinning(df, trade) ==
    /\ FuturePrices(df, trade) # <<>>
    /\ Last(FuturePrices(df, trade)) # Null
    /\ trade.close # Null
    /\ Last(FuturePrices(df, trade)) > trade.close

WinningTrades(df) == Len(SelectSeq(BuyActions(df), LAMBDA t : IsWinning(df, t)))

WinRateOfDecided(df) ==
    LET decided == SelectSeq(BuyActions(df), LAMBDA t : FuturePrices(df, t) # <<>>)
    IN  IF decided = <<>> THEN Zero
        ELSE FloatDiv(100 * WinningTrades(df), Len(decided))

WinRate(df) ==
    IF BuyActions(df) = <<>> THEN Zero
    ELSE FloatDiv(100 * WinningTrades(df), Len(BuyActions(df)))

\* one pass of "for value in portfolio_values"
RECURSIVE DrawdownFrom(_, _, _)
DrawdownFrom(values, peak, max_dd) ==
    IF values = <<>> THEN max_dd
    ELSE LET value == Head(values)
             pk == IF value > peak THEN value ELSE peak
             dd == FloatDiv(100 * (pk - value), pk)
         IN  DrawdownFrom(Tail(values), pk, IF FloatGt(dd, max_dd) THEN dd ELSE max_dd)

MaxDrawdownFromFirst(portfolio_values) ==
    LET dds == [i \in DOMAIN portfolio_values |->
                   FloatDiv(100 * (portfolio_values[1] - portfolio_values[i]),
                            portfolio_values[1])]
        best == CHOOSE i \in DOMAIN dds : \A j \in DOMAIN dds : ~FloatGt(dds[j], dds[i])
    IN  IF FloatGt(dds[best], Zero) THEN dds[best] ELSE Zero

MaxDrawdown(portfolio_values) ==
    DrawdownFrom(portfolio_values, portfolio_values[1], Zero)

StockData(df, stock) == SelectSeq(df, LAMBDA r : r.ticker = stock)

\* ret = ((last_price - first_price) / first_price) * 100
Ret(df, stock) ==
    LET first_price == StockData(df, stock)[1].close
        last_price == Last(StockData(df, stock)).close
    IN  IF first_price = Null \/ last_price = Null THEN NaN
        ELSE FloatDiv(100 * (last_price - first_price), first_price)

NotAvailable(ret) == [stock |-> "N/A", ret |-> ret]

\* "for stock in pm.stocks", from the i-th stock on; best is the pair
\* (best_stock, best_return), the formatted text being its two parts
RECURSIVE BestFrom(_, _, _)
BestFrom(df, i, best) ==
    IF i > Len(Stocks) THEN best
    ELSE IF Len(StockData(df, Stocks[i])) > 1 /\ FloatGt(Ret(df, Stocks[i]), best.ret)
         THEN BestFrom(df, i + 1, [stock |-> Stocks[i], ret |-> Ret(df, Stocks[i])])
         ELSE BestFrom(df, i + 1, best)

RECURSIVE WorstFrom(_, _, _)
WorstFrom(df, i, worst) ==
    IF i > Len(Stocks) THEN worst
    ELSE IF Len(StockData(df, Stocks[i])) > 1 /\ FloatLt(Ret(df, Stocks[i]), worst.ret)
         THEN WorstFrom(df, i + 1, [stock |-> Stocks[i], ret |-> Ret(df, Stocks[i])])
         ELSE WorstFrom(df, i + 1, worst)

BestStock(df) == BestFrom(df, 1, NotAvailable(NegInf))

WorstStock(df) == WorstFrom(df, 1, NotAvailable(Inf))

\* the dict calculate_performance_metrics returns, or the exception it lets
\* through
NoSnapshot(status) ==
    [status |-> status, returns |-> <<>>, volatility |-> "absent",
     winning_trades |-> 0, win_rate |-> Absent, max_drawdown |-> Absent,
     best_stock |-> NotAvailable(Absent), worst_stock |-> NotAvailable(Absent)]

NoMetrics == NoSnapshot("none")

ExportSnapshot(df) ==
    IF ValuesRaise(df, HourSpan) THEN NoSnapshot("raised")
    ELSE IF Len(PortfolioValues(df, HourSpan)) < 2 THEN NoSnapshot("empty")
    ELSE LET portfolio_values == Totals(PortfolioValues(df, HourSpan))
         IN  [NoSnapshot("snapshot") EXCEPT
                 !.returns = Returns(portfolio_values),
                 !.volatility = Volatility(Returns(portfolio_values)),
                 !.winning_trades = WinningTrades(df),
                 !.win_rate = WinRate(df)]

StaticSnapshot(df) ==
    IF ValuesRaise(df, DaySpan) THEN NoSnapshot("raised")
    ELSE IF Len(PortfolioValues(df, DaySpan)) < 2 THEN NoSnapshot("empty")
    ELSE LET portfolio_values == Totals(PortfolioValues(df, DaySpan))
         IN  [status |-> "snapshot",
              returns |-> Returns(portfolio_values),
              volatility |-> Volatility(Returns(portfolio_values)),
              winning_trades |-> WinningTrades(df),
              win_rate |-> WinRate(df),
              max_drawdown |-> MaxDrawdown(portfolio_values),
              best_stock |-> BestStock(df),
              worst_stock |-> WorstStock(df)]

\* ------------------------------------------------------------ initial states
DefaultState ==
    [portfolio |-> [s \in StockSet |-> 0], cash |-> 100, trades |-> <<>>]

StaleState ==
    [portfolio |-> [s \in StockSet |-> IF s = "AAPL" THEN 7 ELSE 0],
     cash |-> 70,
     trades |-> <<[timestamp |-> 0, stock |-> "MSFT", shares |-> 9,
                   price |-> 4, total_cost |-> 36]>>]

CallerStates == {DefaultState, StaleState}

NoSeries == [by |-> "none", raised |-> FALSE, points |-> <<>>]

Init ==
    /\ log \in LogsOver(RecalcRows)
    /\ df_sorted = <<>>
    /\ pm \in CallerStates
    /\ saved = pm
    /\ outcome = "none"
    /\ calls = 0
    /\ series = NoSeries
    /\ metrics = NoMetrics

\* ------------------------------------------------------------ actions
\* recalculate_portfolio_from_csv(pm): reads and sorts the file, then
\* rebuilds pm.  The sort is a function of the file: a second call on the
\* same file sorts it the same way.
Recalculate ==
    /\ calls < MaxCalls
    /\ \E d \in SortValues(log) :
        /\ calls > 0 => d = df_sorted
        /\ df_sorted' = d
        /\ pm' = Recalculated(pm, d)
        /\ saved' = IF Outcome(d) = "loaded" THEN Recalculated(pm, d) ELSE saved
        /\ outcome' = Outcome(d)
    /\ calls' = calls + 1
    /\ UNCHANGED <<log, series, metrics>>

Next == Recalculate

Spec == Init /\ [][Next]_vars

\* Reconstruction from a log that may also hold rows the logger would not
\* write: a BUY whose quantity field is empty and a negative position_after.
MalformedShapes ==
    {<<"BUY", Null, 5, Null, Null>>, <<"BUY", Null, 5, 1, 10>>,
     <<"HOLD", 0, 5, -4, 10>>}

MalformedRows ==
    {Row(ts, tk, s[1], s[2], s[3], s[4], s[5]) :
        ts \in Timestamps, tk \in StockSet, s \in MalformedShapes}

InitMalformed ==
    /\ log \in LogsOver(RecalcRows \cup MalformedRows)
    /\ df_sorted = <<>>
    /\ pm \in CallerStates
    /\ saved = pm
    /\ outcome = "none"
    /\ calls = 0
    /\ series = NoSeries
    /\ metrics = NoMetrics

SpecMalformed == InitMalformed /\ [][Next]_vars

\* ------------------------------------------------------------ generators
InitAgg ==
    /\ log \in LogsOver(AggRows)
    /\ df_sorted = <<>>
    /\ pm = DefaultState
    /\ saved = pm
    /\ outcome = "none"
    /\ calls = 0
    /\ series = NoSeries
    /\ metrics = NoMetrics

\* export_dashboard.calculate_performance_metrics(pm, df)
ExportMetrics ==
    /\ series' = LoopOutcome("export_metrics", log, HourSpan)
    /\ metrics' = ExportSnapshot(log)
    /\ UNCHANGED <<log, df_sorted, pm, saved, outcome, calls>>

ExportTimelineSorted ==
    /\ series' = LoopOutcome("export_timeline",
                              CHOOSE d \in SortValues(log) : TRUE, HourSpan)
    /\ UNCHANGED <<log, df_sorted, pm, saved, outcome, calls, metrics>>

\* export_dashboard.create_timeline_chart(pm, df), lines 427-443
ExportTimeline ==
    /\ series' = LoopOutcome("export_timeline", log, HourSpan)
    /\ UNCHANGED <<log, df_sorted, pm, saved, outcome, calls, metrics>>

\* generate_static_dashboard.calculate_performance_metrics(df, pm)
StaticMetrics ==
    /\ series' = LoopOutcome("static_metrics", log, DaySpan)
    /\ metrics' = StaticSnapshot(log)
    /\ UNCHANGED <<log, df_sorted, pm, saved, outcome, calls>>

\* generate_static_dashboard, block "2. Portfolio Value Timeline"
StaticTimeline ==
    /\ series' = LoopOutcome("static_timeline", log, DaySpan)
    /\ UNCHANGED <<log, df_sorted, pm, saved, outcome, calls, metrics>>

\* generate_dashboard.main, block "2. Portfolio Value Over Time"
SimpleDashboard ==
    /\ series' = [by |-> "simple", raised |-> FALSE, points |-> DailyValues(log)]
    /\ UNCHANGED <<log, df_sorted, pm, saved, outcome, calls, metrics>>

NextAgg ==
    \/ ExportMetrics
    \/ ExportTimeline
    \/ StaticMetrics
    \/ StaticTimeline
    \/ SimpleDashboard

SpecAgg == InitAgg /\ [][NextAgg]_vars

\* ------------------------------------------------------------ metrics runs
\* Logs that give the metrics a valuation series of up to MaxPoints points:
\* one row a day, in file order, each with a cash_after and nothing else, so
\* that the i-th valuation is the i-th cash_after.
CashValues == {-50, 0, 90, 100, 120, 150}

ValuationLogs ==
    UNION {{[i \in 1..n |->
                Row((i - 1) * DaySpan, "AAPL", "HOLD", 0, Null, Null, cash[i])] :
            cash \in [1..n -> CashValues]} : n \in 0..MaxPoints}

InitValuations ==
    /\ log \in ValuationLogs
    /\ df_sorted = <<>>
    /\ pm = DefaultState
    /\ saved = pm
    /\ outcome = "none"
    /\ calls = 0
    /\ series = NoSeries
    /\ metrics = NoMetrics

NextMetrics ==
    \/ ExportMetrics
    \/ StaticMetrics

SpecValuations == InitValuations /\ [][NextMetrics]_vars

\* Logs of up to MaxTradeRows rows for the win rate and the best and worst
\* stock: BUY records and price observations in any file order, each with a
\* close and a cash_after.
TradeShapes ==
    {<<"AAPL", "BUY", 1, 5>>, <<"AAPL", "BUY", 1, 7>>,
     <<"AAPL", "HOLD", 0, 5>>, <<"AAPL", "HOLD", 0, 7>>,
     <<"MSFT", "HOLD", 0, 7>>}

TradeRows ==
    {Row(ts, s[1], s[2], s[3], s[4], Null, 100) :
        ts \in Timestamps, s \in TradeShapes}

TradeLogs == UNION {[1..n -> TradeRows] : n \in 0..MaxTradeRows}

InitTrades ==
    /\ log \in TradeLogs
    /\ df_sorted = <<>>
    /\ pm = DefaultState
    /\ saved = pm
    /\ outcome = "none"
    /\ calls = 0
    /\ series = NoSeries
    /\ metrics = NoMetrics

SpecTrades == InitTrades /\ [][NextMetrics]_vars

\* ============================================================ claims
\* The claims speak of the log as written, in file order: "last" is the
\* greatest row number.
IsCheckpointRow(r) == r.position_after # Null /\ r.cash_after # Null

HasCheckpointRow(l) == \E i \in DOMAIN l : IsCheckpointRow(l[i])

\* T, the maximum timestamp among the checkpoint rows
CheckpointTime(l) ==
    MaxOf({l[i].timestamp : i \in {j \in DOMAIN l : IsCheckpointRow(l[j])}})

\* the row numbers at timestamp T that carry column col (for one ticker, or
\* for any ticker when tk = "any")
RowsAtT(l, tk, col) ==
    {i \in DOMAIN l : /\ l[i].timestamp = CheckpointTime(l)
                      /\ tk \in {"any", l[i].ticker}
                      /\ l[i][col] # Null}

SharesAtT(l, tk) ==
    IF RowsAtT(l, tk, "position_after") = {} THEN 0
    ELSE l[MaxOf(RowsAtT(l, tk, "position_after"))].position_after

CashAtT(l) == l[MaxOf(RowsAtT(l, "any", "cash_after"))].cash_after

\* C1: after a reconstruction from a log with a checkpoint row, every tracked
\* ticker's share count is the position_after of the last row (file order) at
\* the latest checkpoint timestamp T that carries one for that ticker, and 0
\* when no row at T does.
C1_SharesOfLastRowAtT ==
    (calls >= 1 /\ HasCheckpointRow(log)) =>
        \A s \in StockSet : pm.portfolio[s] = SharesAtT(log, s)

\* C2: after a reconstruction from a log with a checkpoint row, the cash is
\* the cash_after of the last row (file order) at T that carries one.
C2_CashOfLastRowAtT ==
    (calls >= 1 /\ HasCheckpointRow(log)) => pm.cash = CashAtT(log)

\* C3: a reconstruction from a log without a checkpoint row (the empty log
\* included) leaves the positions and the cash as the caller supplied them
\* and ends without an error.
C3_NoCheckpointKeepsState ==
    [][(calls' = calls + 1 /\ ~HasCheckpointRow(log)) =>
          /\ pm'.portfolio = pm.portfolio
          /\ pm'.cash = pm.cash
          /\ outcome' # "caught"]_vars

C3_Witness ==
    /\ calls >= 1
    /\ outcome = "skipped"
    /\ ~HasCheckpointRow(log)
    /\ \E i \in DOMAIN log : log[i].position_after # Null
    /\ \E i \in DOMAIN log : log[i].cash_after # Null
    /\ pm.portfolio = StaleState.portfolio
    /\ pm.cash = StaleState.cash

\* the Trade of a BUY record, as the claim words it
TradeOfRecord(r) ==
    [timestamp |-> r.timestamp, stock |-> r.ticker, shares |-> r.quantity,
     price |-> r.close, total_cost |-> r.quantity * r.close]

BuyRecords(l) == {i \in DOMAIN l : l[i].action = "BUY"}

\* C4: after a reconstruction from a log with a checkpoint row, the trade list
\* holds each BUY record of the whole log exactly once (as many entries equal
\* to a Trade as BUY records convert to it), nothing else, in ascending
\* timestamp order.
C4_TradesAreTheBuyRecords ==
    (calls >= 1 /\ HasCheckpointRow(log)) =>
        /\ Len(pm.trades) = Cardinality(BuyRecords(log))
        /\ \A i \in BuyRecords(log) :
              Cardinality({j \in DOMAIN pm.trades :
                              pm.trades[j] = TradeOfRecord(log[i])})
              = Cardinality({j \in BuyRecords(log) :
                              TradeOfRecord(log[j]) = TradeOfRecord(log[i])})
        /\ \A i, j \in DOMAIN pm.trades :
              i < j => pm.trades[i].timestamp <= pm.trades[j].timestamp

\* two BUY records stored latest first, the earlier one not at T, beside a
\* record that is no BUY
C4_Witness ==
    /\ calls >= 1
    /\ HasCheckpointRow(log)
    /\ Len(pm.trades) = 2
    /\ pm.trades[1].timestamp < pm.trades[2].timestamp
    /\ pm.trades[1].timestamp < CheckpointTime(log)
    /\ \E i, j \in BuyRecords(log) : i < j /\ log[i].timestamp > log[j].timestamp

\* C5: a second reconstruction in a row from the unchanged log leaves the
\* positions, the cash and the trade list as the first one left them.
C5_SecondRunChangesNothing ==
    [][(calls >= 1 /\ calls' = calls + 1) => pm' = pm]_vars

C5_Witness ==
    /\ calls = 2
    /\ HasCheckpointRow(log)
    /\ pm.trades # <<>>
    /\ pm \notin CallerStates

\* ------------------------------------------------------------ series claims
PandasLoops ==
    {"export_metrics", "export_timeline", "static_metrics", "static_timeline"}

SpanOf(by) ==
    IF by \in {"export_metrics", "export_timeline"} THEN HourSpan ELSE DaySpan

\* the row numbers of bucket b that carry column col (of one ticker, or of any)
RowsInBucket(l, span, b, tk, col) ==
    {i \in DOMAIN l : /\ Floor(l[i].timestamp, span) = b
                      /\ tk \in {"any", l[i].ticker}
                      /\ l[i][col] # Null}

LastInBucket(l, span, b, tk, col) == l[MaxOf(RowsInBucket(l, span, b, tk, col))][col]

BucketsOf(l, span) == {Floor(l[i].timestamp, span) : i \in DOMAIN l}

CashBuckets(l, span) ==
    {b \in BucketsOf(l, span) : RowsInBucket(l, span, b, "any", "cash_after") # {}}

PointsAt(b) == {i \in DOMAIN series.points : series.points[i].bucket_time = b}

\* C6: the valuation series has exactly one point for each bucket with a
\* non-null cash_after and none for a bucket without.
C6_OnePointPerCashBucket ==
    series.by # "none" =>
        \A b \in BucketsOf(log, SpanOf(series.by)) :
            Cardinality(PointsAt(b)) =
                IF b \in CashBuckets(log, SpanOf(series.by)) THEN 1 ELSE 0

\* the claimed contribution of a ticker: last position_after times last close
\* of its rows in the bucket, each taken on its own; 0 when one is missing
TickerPart(l, span, b, tk) ==
    IF /\ RowsInBucket(l, span, b, tk, "position_after") # {}
       /\ RowsInBucket(l, span, b, tk, "close") # {}
    THEN LastInBucket(l, span, b, tk, "position_after")
         * LastInBucket(l, span, b, tk, "close")
    ELSE 0

ClaimedTotal(l, span, b, tks) ==
    LastInBucket(l, span, b, "any", "cash_after")
    + SumSeq([i \in DOMAIN Stocks |->
                 IF Stocks[i] \in tks THEN TickerPart(l, span, b, Stocks[i]) ELSE 0])

\* C7: every emitted point's total is the last cash_after of its bucket plus,
\* over the tracked tickers, last position_after times last close.
C7_BucketTotal ==
    series.by \in PandasLoops =>
        \A i \in DOMAIN series.points :
            series.points[i].total_value =
                ClaimedTotal(log, SpanOf(series.by),
                             series.points[i].bucket_time, StockSet)

\* the example of the claim: cash_after 5000, position_after 10, close 150
C7_Witness ==
    /\ series.by \in PandasLoops
    /\ \E i \in DOMAIN series.points :
        LET b == series.points[i].bucket_time
            span == SpanOf(series.by)
        IN  /\ series.points[i].total_value = 6500
            /\ LastInBucket(log, span, b, "any", "cash_after") = 5000
            /\ RowsInBucket(log, span, b, "AAPL", "position_after") # {}
            /\ LastInBucket(log, span, b, "AAPL", "position_after") = 10
            /\ LastInBucket(log, span, b, "AAPL", "close") = 150

\* a ticker with only one of position_after / close in the bucket
IsPartial(l, span, b, tk) ==
    (RowsInBucket(l, span, b, tk, "position_after") = {})
        # (RowsInBucket(l, span, b, tk, "close") = {})

\* C8: in a bucket with a cash_after, a ticker with a position_after but no
\* close (or a close but no position_after) contributes 0 and the bucket's
\* point is emitted: the aggregation does not fail.
C8_PartialTickerContributesZero ==
    series.by \in PandasLoops =>
        \A b \in CashBuckets(log, SpanOf(series.by)) :
            (\E tk \in StockSet : IsPartial(log, SpanOf(series.by), b, tk)) =>
                /\ ~series.raised
                /\ \E i \in PointsAt(b) :
                      series.points[i].total_value =
                          ClaimedTotal(log, SpanOf(series.by), b, StockSet)

\* C9: the points of the series are in strictly ascending bucket-time order,
\* whatever the order of the rows in the file.
C9_AscendingBuckets ==
    series.by \in PandasLoops =>
        \A i, j \in DOMAIN series.points :
            i < j => series.points[i].bucket_time < series.points[j].bucket_time

\* the most recent value of a column for a ticker up to bucket b: the last
\* one inside b, else the last one of the latest earlier bucket that has one
CarriedValue(l, span, b, tk, col) ==
    LET seen == {c \in BucketsOf(l, span) :
                    c <= b /\ RowsInBucket(l, span, c, tk, col) # {}}
    IN  IF seen = {} THEN Null
        ELSE LastInBucket(l, span, MaxOf(seen), tk, col)

CarriedPart(l, span, b, tk) ==
    IF \/ CarriedValue(l, span, b, tk, "position_after") = Null
       \/ CarriedValue(l, span, b, tk, "close") = Null
    THEN 0
    ELSE CarriedValue(l, span, b, tk, "position_after")
         * CarriedValue(l, span, b, tk, "close")

\* C10 as stated: a ticker without an observation inside an emitted bucket
\* enters the bucket's total with its most recent earlier values.
C10_CarryForward ==
    series.by \in PandasLoops =>
        \A i \in DOMAIN series.points :
            series.points[i].total_value =
                LastInBucket(log, SpanOf(series.by),
                             series.points[i].bucket_time, "any", "cash_after")
                + SumSeq([k \in DOMAIN Stocks |->
                            CarriedPart(log, SpanOf(series.by),
                                        series.points[i].bucket_time, Stocks[k])])

\* C10 amended: a tracked ticker without a position_after inside an emitted
\* bucket adds nothing to that bucket's total, whatever earlier buckets hold:
\* the total is the bucket's cash plus what the other tickers add.
C10_NothingCarried ==
    series.by \in PandasLoops =>
        \A i \in DOMAIN series.points : \A tk \in StockSet :
            LET b == series.points[i].bucket_time
                span == SpanOf(series.by)
            IN  RowsInBucket(log, span, b, tk, "position_after") = {} =>
                    series.points[i].total_value =
                        ClaimedTotal(log, span, b, StockSet \ {tk})

\* an emitted bucket without a position_after of a ticker that an earlier
\* bucket observed with position_after and close
C10_Witness ==
    /\ series.by \in PandasLoops
    /\ \E i \in DOMAIN series.points : \E tk \in StockSet :
        LET b == series.points[i].bucket_time
            span == SpanOf(series.by)
        IN  /\ RowsInBucket(log, span, b, tk, "position_after") = {}
            /\ \E c \in BucketsOf(log, span) :
                  /\ c < b
                  /\ RowsInBucket(log, span, c, tk, "position_after") # {}
                  /\ RowsInBucket(log, span, c, tk, "close") # {}

\* ------------------------------------------------------------ metrics claims
MetricsSteps == {"export_metrics", "static_metrics"}

\* C11: calculate_performance_metrics returns the empty snapshot, and does not
\* raise, whenever fewer than 2 buckets of the log carry a cash_after: for
\* the empty log, for a log without any cash_after and for a log whose
\* cash_after observations all fall in one bucket.
C11_FewPointsGiveEmptySnapshot ==
    (/\ series.by \in MetricsSteps
     /\ Cardinality(CashBuckets(log, SpanOf(series.by))) < 2)
        => metrics.status = "empty"

Hundred == Finite(100, 1)

\* C12: for every valuation series of at least 2 points, zero and negative
\* totals included, max_drawdown is a number between 0 and 100.
C12_DrawdownWithinPercent ==
    (series.by = "static_metrics" /\ metrics.status = "snapshot") =>
        /\ IsFinite(metrics.max_drawdown)
        /\ ~FloatGt(Zero, metrics.max_drawdown)
        /\ ~FloatGt(metrics.max_drawdown, Hundred)

\* P_i, the running peak of v_1 .. v_i
RunningPeak(v, i) == MaxOf({v[j] : j \in 1..i})

\* x = 100 * (P_i - v_i) / P_i, for a finite x and P_i # 0
IsDrawdownAt(x, v, i) ==
    x.num * RunningPeak(v, i) = 100 * (RunningPeak(v, i) - v[i]) * x.den

\* x >= 100 * (P_i - v_i) / P_i, for a finite x and P_i # 0
CoversDrawdownAt(x, v, i) ==
    IF RunningPeak(v, i) > 0
    THEN x.num * RunningPeak(v, i) >= 100 * (RunningPeak(v, i) - v[i]) * x.den
    ELSE x.num * RunningPeak(v, i) <= 100 * (RunningPeak(v, i) - v[i]) * x.den

\* C13: max_drawdown is the maximum over the points of (P_i - v_i) / P_i * 100
\* with P_i the running peak (wherever the quotients are defined: no P_i is
\* 0); it is 0 for a non-decreasing series; the series 100, 120, 90, 150
\* gives 25.
C13_DrawdownIsMaxOverRunningPeak ==
    (series.by = "static_metrics" /\ metrics.status = "snapshot") =>
        LET v == Totals(series.points)
            md == metrics.max_drawdown
        IN  /\ (\A i \in DOMAIN v : RunningPeak(v, i) # 0) =>
                  /\ IsFinite(md)
                  /\ \E i \in DOMAIN v : IsDrawdownAt(md, v, i)
                  /\ \A i \in DOMAIN v : CoversDrawdownAt(md, v, i)
            /\ (\A i \in 1..(Len(v) - 1) : v[i] <= v[i + 1]) => md = Zero
            /\ v = <<100, 120, 90, 150>> => md = Finite(25, 1)

C13_Witness ==
    /\ series.by = "static_metrics"
    /\ Totals(series.points) = <<100, 120, 90, 150>>
    /\ metrics.max_drawdown = Finite(25, 1)

MinOf(S) == CHOOSE x \in S : \A y \in S : x <= y

\* the records of the BUY's ticker with a strictly later timestamp
LaterRecords(l, i) ==
    {j \in DOMAIN l : l[j].ticker = l[i].ticker /\ l[j].timestamp > l[i].timestamp}

\* the chronologically latest of them (the last in the file among those of
\* the latest timestamp)
LatestLater(l, i) ==
    MaxOf({j \in LaterRecords(l, i) :
              l[j].timestamp = MaxOf({l[k].timestamp : k \in LaterRecords(l, i)})})

ClaimedWinning(l, i) ==
    /\ LaterRecords(l, i) # {}
    /\ l[LatestLater(l, i)].close # Null
    /\ l[i].close # Null
    /\ l[LatestLater(l, i)].close > l[i].close

\* C14: a BUY record is counted as winning exactly when, among the records of
\* its ticker with a strictly later timestamp, the chronologically latest one
\* has a close above the BUY's close, for every row order of the file.
C14_WinningByLatestLaterClose ==
    (series.by \in MetricsSteps /\ metrics.status = "snapshot") =>
        metrics.winning_trades =
            Cardinality({i \in BuyRecords(log) : ClaimedWinning(log, i)})

\* C15: win_rate is 100 times the number of BUY records counted as winning
\* over the number of all BUY records, a BUY without a later record of its
\* ticker being in the denominator and not winning; it is 0 for a log without
\* a BUY record, and always between 0 and 100.
C15_WinRateOverAllBuys ==
    (series.by \in MetricsSteps /\ metrics.status = "snapshot") =>
        /\ IF BuyRecords(log) = {} THEN metrics.win_rate = Zero
           ELSE metrics.win_rate =
                    FloatDiv(100 * metrics.winning_trades, Cardinality(BuyRecords(log)))
        /\ metrics.winning_trades <=
               Cardinality({i \in BuyRecords(log) : LaterRecords(log, i) # {}})
        /\ IsFinite(metrics.win_rate)
        /\ ~FloatGt(Zero, metrics.win_rate)
        /\ ~FloatGt(metrics.win_rate, Hundred)

C15_Witness ==
    /\ series.by \in MetricsSteps
    /\ metrics.status = "snapshot"
    /\ \E i \in BuyRecords(log) : LaterRecords(log, i) = {}
    /\ metrics.win_rate = Finite(50, 1)

\* the rows of a ticker that carry a close
CloseRows(l, tk) == {i \in DOMAIN l : l[i].ticker = tk /\ l[i].close # Null}

\* the chronologically first and last close of a ticker (among rows of one
\* timestamp, the first and the last in the file)
FirstClose(l, tk) ==
    l[MinOf({i \in CloseRows(l, tk) :
                l[i].timestamp = MinOf({l[k].timestamp : k \in CloseRows(l, tk)})})].close

LastClose(l, tk) ==
    l[MaxOf({i \in CloseRows(l, tk) :
                l[i].timestamp = MaxOf({l[k].timestamp : k \in CloseRows(l, tk)})})].close

ClaimedReturn(l, tk) ==
    FloatDiv(100 * (LastClose(l, tk) - FirstClose(l, tk)), FirstClose(l, tk))

\* the places in pm.stocks of the tickers with at least 2 close observations
Eligible(l) == {i \in DOMAIN Stocks : Cardinality(CloseRows(l, Stocks[i])) >= 2}

ClaimedBest(l) ==
    IF Eligible(l) = {} THEN "N/A"
    ELSE Stocks[MinOf({i \in Eligible(l) : \A j \in Eligible(l) :
            ~FloatGt(ClaimedReturn(l, Stocks[j]), ClaimedReturn(l, Stocks[i]))})]

ClaimedWorst(l) ==
    IF Eligible(l) = {} THEN "N/A"
    ELSE Stocks[MinOf({i \in Eligible(l) : \A j \in Eligible(l) :
            ~FloatLt(ClaimedReturn(l, Stocks[j]), ClaimedReturn(l, Stocks[i]))})]

\* C16: best_stock and worst_stock name the tracked ticker with the greatest
\* and the least (last_close - first_close) / first_close * 100 among the
\* tracked tickers with at least 2 close observations, first and last being
\* chronological, together with that return; on a tie the first ticker in
\* iteration order.
C16_BestWorstByChronologicalReturn ==
    (series.by = "static_metrics" /\ metrics.status = "snapshot") =>
        /\ metrics.best_stock.stock = ClaimedBest(log)
        /\ metrics.worst_stock.stock = ClaimedWorst(log)
        /\ ClaimedBest(log) # "N/A" =>
              /\ metrics.best_stock.ret = ClaimedReturn(log, ClaimedBest(log))
              /\ metrics.worst_stock.ret = ClaimedReturn(log, ClaimedWorst(log))

\* C17: no metric comes out of a division by zero: a period return whose
\* prior valuation is 0 is 0, and returns, volatility, max_drawdown and the
\* returns of the best and worst stock are numbers, never inf or nan.
C17_DivisionsGuarded ==
    (series.by \in MetricsSteps /\ metrics.status = "snapshot") =>
        /\ \A i \in DOMAIN metrics.returns :
              /\ IsFinite(metrics.returns[i])
              /\ series.points[i].total_value = 0 => metrics.returns[i] = Zero
        /\ metrics.volatility = "finite"
        /\ series.by = "static_metrics" =>
              /\ IsFinite(metrics.max_drawdown)
              /\ metrics.best_stock.stock # "N/A" => IsFinite(metrics.best_stock.ret)
              /\ metrics.worst_stock.stock # "N/A" => IsFinite(metrics.worst_stock.ret)

\* ------------------------------------------------------------ reconstruction, again
\* C18: a reconstruction is all-or-nothing: when it ends, the positions, the
\* cash and the trade list are all as before the call or all as derived from
\* the log (the call went through), also when it fails part-way.
C18_AllOrNothing ==
    [][calls' = calls + 1 => (pm' = pm \/ outcome' = "loaded")]_vars

\* the position_after values of a ticker at T (0 when it has none), and the
\* cash_after values at T
PositionsAtT(l, tk) ==
    IF RowsAtT(l, tk, "position_after") = {} THEN {0}
    ELSE {l[i].position_after : i \in RowsAtT(l, tk, "position_after")}

CashesAtT(l) == {l[i].cash_after : i \in RowsAtT(l, "any", "cash_after")}

C20_SharesNonNegative ==
    calls >= 1 => \A s \in StockSet : pm.portfolio[s] >= 0

\* the trade list holds one Trade for each BUY record of the log, and
\* nothing else
OneTradePerBuyRecord(l, trades) ==
    /\ Len(trades) = Cardinality(BuyRecords(l))
    /\ \A i \in BuyRecords(l) :
          Cardinality({j \in DOMAIN trades : trades[j] = TradeOfRecord(l[i])})
          = Cardinality({j \in BuyRecords(l) :
                            TradeOfRecord(l[j]) = TradeOfRecord(l[i])})

\* C21: the trade list does not depend on a checkpoint row: after a
\* reconstruction from a log with BUY records and no checkpoint row the trade
\* list holds one Trade per BUY record.
C21_TradesWithoutCheckpoint ==
    (calls >= 1 /\ BuyRecords(log) # {} /\ ~HasCheckpointRow(log)) =>
        OneTradePerBuyRecord(log, pm.trades)

\* ------------------------------------------------------------ one run
\* a generator computes its metrics and then its timeline, from the same frame
TimelineAfterMetrics ==
    \/ series.by = "export_metrics" /\ series'.by = "export_timeline"
    \/ series.by = "static_metrics" /\ series'.by = "static_timeline"

====
